---- MODULE Spec2Model ----
(***************************************************************************)
(* Model of scripts/utils.py: the data-cleaning helpers elegir_imputacion, *)
(* limpiar_texto and evaluar_fila over an in-memory DataFrame.             *)
(*                                                                         *)
(* A DataFrame is a sequence of rows; a row is a record with the columns   *)
(*   id  (int64)   a row label, never null                                 *)
(*   g1  (object)  text, or null                                           *)
(*   g2  (object)  text, or null                                           *)
(*   val (float64) a number, or null (NaN)                                 *)
(* Text is a sequence of one-character strings, so that str.strip() and    *)
(* str.lower() are computed and not assumed.  Numbers are naturals; the    *)
(* percentiles of numpy (linear interpolation) are kept exact by carrying  *)
(* them multiplied by 4, the median by carrying it multiplied by 2.        *)
(*                                                                         *)
(* Library behaviour the functions rest on, modelled as the libraries      *)
(* compute it:                                                             *)
(*  - pandas groupby(keys) has dropna=True: a row with a null key is in no *)
(*    group, and transform gives NaN at such a row;                        *)
(*  - np.nanpercentile of an empty array is the scalar nan, not an array   *)
(*    of the shape of q;                                                   *)
(*  - scipy.stats.mode returns arrays up to scipy 1.10 and scalars from    *)
(*    scipy 1.11 on; the source pins no version, so the installed API is   *)
(*    a choice made in Init (variable scipy).                              *)
(***************************************************************************)
EXTENDS Integers, Sequences, FiniteSets, TLC

VARIABLES
    df,          \* the DataFrame the caller holds (mutated by reference)
    df0,         \* the DataFrame as it was constructed (history)
    prev,        \* the DataFrame just before the last call (history)
    pc,          \* "inicio", then "imputado" / "reimputado" / "limpio" / "evaluado"
    exc,         \* exception the last call raised to the caller, or "none"
    args,        \* arguments of the last call
    scipy,       \* API generation of the installed scipy.stats.mode ("none": not used)
    resultado    \* DataFrame returned by evaluar_fila

vars == <<df, df0, prev, pc, exc, args, scipy, resultado>>

----------------------------------------------------------------------------
(* Bounds of the model *)

MaxRows == 3

----------------------------------------------------------------------------
(* Values *)

\* NaN / None of a float64 column (and of a float result)
NaN == -1

\* NaN / None of an object column
NULO == <<"NaN">>

\* df.columns
Columnas == {"id", "g1", "g2", "val"}

\* df[c].dtype
Dtype(c) == IF c \in {"g1", "g2"} THEN "object"
            ELSE IF c = "val" THEN "float64" ELSE "int64"

\* isnull() of the cell of column c in a row
IsNullCell(row, c) ==
    IF Dtype(c) = "object" THEN row[c] = NULO
    ELSE IF Dtype(c) = "float64" THEN row[c] = NaN
    ELSE FALSE

Min(S) == CHOOSE x \in S : \A y \in S : x <= y

Range(s) == {s[i] : i \in 1..Len(s)}

----------------------------------------------------------------------------
(* numpy / pandas / scipy primitives used by elegir_imputacion *)

\* Series.dropna(): the non-null values, in row order
Dropna(s) == SelectSeq(s, LAMBDA x : x # NaN)

\* a, ascending, with x inserted at its place
Insert(a, x) ==
    LET k == Cardinality({j \in 1..Len(a) : a[j] <= x})
    IN [i \in 1..(Len(a) + 1) |->
          IF i <= k THEN a[i] ELSE IF i = k + 1 THEN x ELSE a[i - 1]]

\* values of a sequence in ascending order (the sort inside percentile / median)
RECURSIVE Sorted(_)
Sorted(s) == IF Len(s) = 0 THEN <<>> ELSE Insert(Sorted(Tail(s)), Head(s))

\* 4 * (the q-th quartile, q in {1, 3}) of a non-empty ascending sequence a of
\* non-null values, method "linear": virtual index (n-1)*q/4, interpolated
\* between the two neighbours.
Percentile4(a, q) ==
    IF (q * (Len(a) - 1)) % 4 = 0
    THEN 4 * a[(q * (Len(a) - 1)) \div 4 + 1]
    ELSE 4 * a[(q * (Len(a) - 1)) \div 4 + 1]
         + ((q * (Len(a) - 1)) % 4)
           * (a[(q * (Len(a) - 1)) \div 4 + 2] - a[(q * (Len(a) - 1)) \div 4 + 1])

\* the 25th and the 75th percentile (times 4) of an ascending sequence
Quartiles4(a) == <<Percentile4(a, 1), Percentile4(a, 3)>>

\* np.nanpercentile(x, [25, 75]): for an empty x numpy returns np.nanmean(x),
\* the scalar nan, whatever the shape of q; otherwise the array of the two
\* percentiles (here each times 4).
NanPercentile(x) ==
    IF Len(x) = 0 THEN [scalar |-> TRUE, q |-> <<>>]
    ELSE [scalar |-> FALSE, q |-> Quartiles4(Sorted(x))]

\* 2 * (the median of an ascending sequence), NaN for the empty sequence
Middle2(a) ==
    IF Len(a) = 0 THEN NaN
    ELSE IF Len(a) % 2 = 1 THEN 2 * a[(Len(a) + 1) \div 2]
    ELSE a[Len(a) \div 2] + a[Len(a) \div 2 + 1]

\* 2 * Series.median() (skipna), NaN for a series without values
Median2(s) == Middle2(Sorted(Dropna(s)))

\* half of a doubled median; exact whenever the doubled median is even (see
\* MedianaExacta)
Half(m2) == IF m2 = NaN THEN NaN ELSE m2 \div 2

\* Series.median()
Median(s) == Half(Median2(s))

\* number of occurrences of v in s
Count(s, v) == Cardinality({i \in 1..Len(s) : s[i] = v})

\* scipy.stats.mode(x): the most frequent value, the smallest one on ties
\* (np.unique sorts; argmax takes the first maximum).  Until scipy 1.10 the result
\* keeps the reduced axis: mode is an array of length 1, or empty for an
\* empty x.  From scipy 1.11 (keepdims=False) mode is a scalar.
ModaMasFrecuente(x) ==
    Min({v \in Range(x) : \A w \in Range(x) : Count(x, w) <= Count(x, v)})

ScipyMode(x, api) ==
    [scalar |-> api = "escalar",
     mode |-> IF Len(x) = 0 THEN <<>> ELSE <<ModaMasFrecuente(x)>>]

\* Mutant of Fillna: fillna(value, limit=1), only the first null is filled
FillnaLimite1(s, value) ==
    [i \in 1..Len(s) |->
        IF s[i] = NaN /\ (\A j \in 1..(i - 1) : s[j] # NaN) THEN value ELSE s[i]]

\* Series.fillna(value): nulls replaced by value; a NaN value fills nothing
Fillna(s, value) == [i \in 1..Len(s) |-> IF s[i] = NaN THEN value ELSE s[i]]

\* IEEE comparison x > y on floats: false when either side is nan
Gt(x, y) == x # NaN /\ y # NaN /\ x > y

----------------------------------------------------------------------------
(* elegir_imputacion *)

\* default of the parameter umbral_dispersion
UmbralPorDefecto == 60

\* q1, q3 = p; return q3 - q1: unpacking a scalar raises TypeError.  iqr4 is
\* 4 * (q3 - q1).
UnpackIqr(p) ==
    IF p.scalar THEN [exc |-> "TypeError", iqr4 |-> NaN]
    ELSE [exc |-> "none", iqr4 |-> p.q[2] - p.q[1]]

\* calcular_iqr(series)
calcular_iqr(series) == UnpackIqr(NanPercentile(Dropna(series)))

\* mode(grupo.dropna())[0][0]: [0] is the field mode, [0] its first element;
\* indexing a scalar or an empty array raises IndexError.
ModeLookup(m) ==
    IF m.scalar \/ Len(m.mode) = 0 THEN [exc |-> "IndexError", value |-> NaN]
    ELSE [exc |-> "none", value |-> m.mode[1]]

\* try: fillna(mode ...) except IndexError: fillna(median): the fill value
TryMode(moda, grupo) ==
    IF moda.exc = "IndexError" THEN Median(grupo) ELSE moda.value

\* the branches of imputar_fecha once dispersion is computed; an exception of
\* calcular_iqr is outside the try block and propagates
ImputarSegun(dispersion, grupo, umbral, api) ==
    IF dispersion.exc # "none" THEN [exc |-> dispersion.exc, vals |-> grupo]
    ELSE IF Gt(dispersion.iqr4, 4 * umbral)
    THEN [exc |-> "none", vals |-> Fillna(grupo, Median(grupo))]
    ELSE [exc |-> "none",
          vals |-> Fillna(grupo,
                          TryMode(ModeLookup(ScipyMode(Dropna(grupo), api)), grupo))]

\* imputar_fecha(grupo): the series of one group, imputed
imputar_fecha(grupo, umbral, api) ==
    ImputarSegun(calcular_iqr(grupo), grupo, umbral, api)

\* the group key of a row: its values in the grouping columns
KeyOf(row, agrupacion) == [j \in 1..Len(agrupacion) |-> row[agrupacion[j]]]

KeyHasNull(k) == \E j \in 1..Len(k) : k[j] = NULO

\* df.groupby(agrupacion), dropna=True (the default): the keys of the groups;
\* a row with a null in a grouping column belongs to no group
GroupKeys(d, agrupacion) ==
    {k \in {KeyOf(d[i], agrupacion) : i \in 1..Len(d)} : ~KeyHasNull(k)}

\* the rows of group k, in row order
GroupRows(d, agrupacion, k) ==
    SelectSeq([i \in 1..Len(d) |-> i], LAMBDA i : KeyOf(d[i], agrupacion) = k)

\* groupby(...)[columna]: the series of the target column within group k
GroupSeries(d, agrupacion, k) ==
    LET idx == GroupRows(d, agrupacion, k)
    IN [j \in 1..Len(idx) |-> d[idx[j]].val]

\* order of the characters of the model's texts (code points)
Ord(c) == CASE c = " " -> 32 [] c = "A" -> 65 [] c = "B" -> 66 [] c = "X" -> 88
            [] c = "a" -> 97 [] c = "b" -> 98 [] c = "x" -> 120 [] OTHER -> 0

\* s < t for two texts, and k < l for two group keys (groupby sorts its keys)
RECURSIVE TextLess(_, _)
TextLess(s, t) ==
    IF Len(t) = 0 THEN FALSE
    ELSE IF Len(s) = 0 THEN TRUE
    ELSE IF Ord(Head(s)) # Ord(Head(t)) THEN Ord(Head(s)) < Ord(Head(t))
    ELSE TextLess(Tail(s), Tail(t))

RECURSIVE KeyLess(_, _)
KeyLess(k, l) ==
    IF Len(k) = 0 THEN FALSE
    ELSE IF Head(k) # Head(l) THEN TextLess(Head(k), Head(l))
    ELSE KeyLess(Tail(k), Tail(l))

\* the results res of the groups put back at the rows of their groups; the
\* first exception, in key order, propagates, and a row that belongs to no
\* group gets NaN
Reunir(d, agrupacion, res) ==
    IF \E k \in DOMAIN res : res[k].exc # "none"
    THEN [exc |-> res[CHOOSE k \in DOMAIN res :
                        /\ res[k].exc # "none"
                        /\ \A l \in DOMAIN res :
                              res[l].exc # "none" => ~KeyLess(l, k)].exc,
          col |-> <<>>]
    ELSE [exc |-> "none",
          col |-> [i \in 1..Len(d) |->
                     IF KeyHasNull(KeyOf(d[i], agrupacion)) THEN NaN
                     ELSE res[KeyOf(d[i], agrupacion)].vals[
                            Cardinality({j \in 1..i :
                                KeyOf(d[j], agrupacion) = KeyOf(d[i], agrupacion)})]]]

\* SeriesGroupBy.transform(imputar_fecha): the function applied to the series
\* of each group
Transform(d, agrupacion, umbral, api) ==
    Reunir(d, agrupacion,
           [k \in GroupKeys(d, agrupacion) |->
               imputar_fecha(GroupSeries(d, agrupacion, k), umbral, api)])

\* df[columna] = ...: the column val replaced, row by row
SetVal(d, col) == [i \in 1..Len(d) |-> [d[i] EXCEPT !.val = col[i]]]

\* df[columna] = <result of transform>; return df: an exception of transform
\* leaves df as it was
Asignar(d, t) ==
    IF t.exc # "none" THEN [exc |-> t.exc, df |-> d]
    ELSE [exc |-> "none", df |-> SetVal(d, t.col)]

\* Mutant of elegir_imputacion: the rows that belong to no group are dropped
\* from the DataFrame (df.dropna(subset=agrupacion) before the transform)
elegir_imputacion_sin_clave_nula(d, agrupacion, umbral, api) ==
    Asignar(SelectSeq(d, LAMBDA row : ~KeyHasNull(KeyOf(row, agrupacion))),
            Transform(SelectSeq(d, LAMBDA row : ~KeyHasNull(KeyOf(row, agrupacion))),
                      agrupacion, umbral, api))

\* elegir_imputacion(df, "val", agrupacion, umbral): the outcome of the call
elegir_imputacion(d, agrupacion, umbral, api) ==
    Asignar(d, Transform(d, agrupacion, umbral, api))

----------------------------------------------------------------------------
(* The datasets and arguments the calls are made with *)

\* the grouping values of a row: known/known, or one of them null
KeyPairs == { <<<<"A">>, <<"X">>>>, <<<<"B">>, <<"X">>>>,
              <<NULO, <<"X">>>>, <<<<"A">>, NULO>> }

Vals == {NaN, 10, 20}

MkRow(i, k, v) == [id |-> i, g1 |-> k[1], g2 |-> k[2], val |-> v]

\* the DataFrame of n rows whose i-th row has the grouping values and the
\* target value f[i]
Filas(n, f) == [i \in 1..n |-> MkRow(i, f[i][1], f[i][2])]

\* d is any DataFrame of 1..MaxRows rows over KeyPairs and Vals
EsDataset(d) ==
    \E n \in 1..MaxRows : \E f \in [1..n -> KeyPairs \X Vals] : d = Filas(n, f)

\* the datasets of the documented scenarios: groups A = [10, 20, null, 15] and
\* B = [10, null, 900, 5, 1000] in one DataFrame, and a group [null, null]
OneGroup(g, vs) == [i \in 1..Len(vs) |-> MkRow(i, <<g, <<"X">>>>, vs[i])]

EscenarioAB ==
    LET a == <<10, 20, NaN, 15>>
        b == <<10, NaN, 900, 5, 1000>>
    IN [i \in 1..9 |-> IF i <= 4 THEN MkRow(i, <<<<"A">>, <<"X">>>>, a[i])
                       ELSE MkRow(i, <<<<"B">>, <<"X">>>>, b[i - 4])]

EscenarioNulos == OneGroup(<<"A">>, <<NaN, NaN>>)

Agrupaciones == { <<"g1">>, <<"g1", "g2">> }

Umbrales == {0, 5, UmbralPorDefecto}

ApisScipy == {"keepdims", "escalar"}

----------------------------------------------------------------------------
(* Specification Spec: calls of elegir_imputacion *)

Init ==
    /\ \/ EsDataset(df)
       \/ df \in {EscenarioAB, EscenarioNulos}
    /\ df0 = df
    /\ prev = df
    /\ pc = "inicio"
    /\ exc = "none"
    /\ args = [fn |-> "none"]
    /\ scipy \in ApisScipy
    /\ resultado = <<>>

\* the caller's state after a call with outcome r
Devolver(r) ==
    /\ df' = r.df
    /\ exc' = r.exc
    /\ prev' = df

\* one call elegir_imputacion(df, "val", agrupacion, umbral)
LlamarImputacion(agrupacion, umbral) ==
    /\ Devolver(elegir_imputacion(df, agrupacion, umbral, scipy))
    /\ args' = [fn |-> "elegir_imputacion", agrupacion |-> agrupacion, umbral |-> umbral]
    /\ UNCHANGED <<df0, scipy, resultado>>

\* the first call, with any arguments
Imputar ==
    /\ pc = "inicio"
    /\ \E agrupacion \in Agrupaciones, umbral \in Umbrales :
          LlamarImputacion(agrupacion, umbral)
    /\ pc' = "imputado"

\* a second call with the arguments of the first
Reimputar ==
    /\ pc = "imputado"
    /\ LlamarImputacion(args.agrupacion, args.umbral)
    /\ pc' = "reimputado"

Next == Imputar \/ Reimputar

Spec == Init /\ [][Next]_vars

----------------------------------------------------------------------------
(* Vocabulary of the properties of elegir_imputacion *)

\* a call has been made; prev is the DataFrame it was given, df the one after
Llamado == pc \in {"imputado", "reimputado"}

\* the call returned to the caller
Regreso == Llamado /\ exc = "none"

\* the groups in the sense of the data model: every combination of values of
\* the grouping columns that occurs, a null being a value like any other
AllKeys(d, agrupacion) == {KeyOf(d[i], agrupacion) : i \in 1..Len(d)}

HasValue(s) == \E i \in 1..Len(s) : s[i] # NaN

HasNaN(s) == \E i \in 1..Len(s) : s[i] = NaN

\* 4 * IQR of the non-null values of a series that has some
RangoIntercuartil4(a) == Percentile4(a, 3) - Percentile4(a, 1)

IQR4(s) == RangoIntercuartil4(Sorted(Dropna(s)))

\* the most frequent non-null values of a series
MasFrecuentes(s) ==
    LET x == Dropna(s)
    IN {v \in Range(x) : \A w \in Range(x) : Count(x, w) <= Count(x, v)}

\* the fill value the decision rule prescribes for a series with a value
Relleno(s, umbral) ==
    IF IQR4(s) > 4 * umbral THEN Median(s) ELSE Min(MasFrecuentes(s))

\* The median is exact wherever it is used as a fill value: a group that has
\* a null and a value has an even Median2.
MedianaExacta ==
    \A a \in Agrupaciones : \A k \in GroupKeys(df, a) :
        LET s == GroupSeries(df, a, k)
        IN (HasNaN(s) /\ HasValue(s)) => Median2(s) % 2 = 0

----------------------------------------------------------------------------
(* Properties of elegir_imputacion *)

\* C1: after a call that returned, in every group that groupby formed, each row
\* whose target value was null holds the group's median if the group's IQR is
\* strictly above the threshold, and the group's mode (the smallest most
\* frequent value) if the IQR is at most the threshold.
C1_ReglaDeDecision ==
    Regreso =>
        \A k \in GroupKeys(prev, args.agrupacion) :
            LET idx == GroupRows(prev, args.agrupacion, k)
                s == GroupSeries(prev, args.agrupacion, k)
            IN \A j \in 1..Len(idx) :
                  s[j] = NaN => df[idx[j]].val = Relleno(s, args.umbral)

\* C2: after a call that returned, a group (rows with identical values in all
\* grouping columns, null included) that had a non-null target value has no
\* null target value, and a group whose target values were all null still has
\* only nulls.
C2_SinNulosEnGrupos ==
    Regreso =>
        \A k \in AllKeys(prev, args.agrupacion) :
            LET idx == GroupRows(prev, args.agrupacion, k)
                s == GroupSeries(prev, args.agrupacion, k)
            IN IF HasValue(s)
               THEN \A j \in 1..Len(idx) : df[idx[j]].val # NaN
               ELSE \A j \in 1..Len(idx) : df[idx[j]].val = NaN

\* C3: a call never alters a non-null target value, whatever the grouping
\* values of its row.
C3_NoAlteraNoNulos ==
    Llamado =>
        \A i \in 1..Len(prev) : prev[i].val # NaN => df[i].val = prev[i].val

\* C4: rows with a null in a grouping column form a group of their own, and a
\* null target value in such a group that has a value is filled with the
\* median or the mode of that group.
C4_GrupoDeClaveNula ==
    Regreso =>
        \A k \in AllKeys(prev, args.agrupacion) :
            LET idx == GroupRows(prev, args.agrupacion, k)
                s == GroupSeries(prev, args.agrupacion, k)
            IN (KeyHasNull(k) /\ HasValue(s)) =>
                  \A j \in 1..Len(idx) :
                      s[j] = NaN =>
                          df[idx[j]].val \in {Median(s), Min(MasFrecuentes(s))}

\* C5: a call on a DataFrame with a group without any non-null target value
\* raises nothing to the caller and leaves the target values of that group
\* null.
C5_GrupoNuloNoLanza ==
    Llamado =>
        \A k \in AllKeys(prev, args.agrupacion) :
            LET idx == GroupRows(prev, args.agrupacion, k)
                s == GroupSeries(prev, args.agrupacion, k)
            IN ~HasValue(s) =>
                  /\ exc = "none"
                  /\ \A j \in 1..Len(idx) : df[idx[j]].val = NaN

\* C6: a second call with the same arguments leaves every cell as the first
\* call left it.
C6_Idempotente == pc = "reimputado" => df = prev

\* C6 witness: the first call filled a null, and the second call returned
C6_Testigo ==
    /\ pc = "reimputado"
    /\ exc = "none"
    /\ \E i \in 1..Len(df) : df0[i].val = NaN /\ df[i].val # NaN

C8_ModaMenor ==
    Regreso =>
        /\ \A k \in GroupKeys(prev, args.agrupacion) :
              LET idx == GroupRows(prev, args.agrupacion, k)
                  s == GroupSeries(prev, args.agrupacion, k)
              IN (HasValue(s) /\ IQR4(s) <= 4 * args.umbral) =>
                    \A j \in 1..Len(idx) :
                        s[j] = NaN =>
                            \A v \in MasFrecuentes(s) : df[idx[j]].val <= v
        /\ (prev = EscenarioAB /\ args.umbral = UmbralPorDefecto) => df[3].val = 10

----------------------------------------------------------------------------
(* limpiar_texto *)

\* the characters str.strip() removes
Espacios == {" "}

\* one character lowercased
LowerChar(c) == CASE c = "A" -> "a" [] c = "B" -> "b" [] c = "X" -> "x" [] OTHER -> c

RECURSIVE LStrip(_)
LStrip(t) == IF Len(t) > 0 /\ Head(t) \in Espacios THEN LStrip(Tail(t)) ELSE t

RECURSIVE RStrip(_)
RStrip(t) ==
    IF Len(t) > 0 /\ t[Len(t)] \in Espacios THEN RStrip(SubSeq(t, 1, Len(t) - 1)) ELSE t

\* Series.str.strip() and Series.str.lower() on one cell: a null stays null
StrStrip(x) == IF x = NULO THEN NULO ELSE RStrip(LStrip(x))

StrLower(x) == IF x = NULO THEN NULO ELSE [i \in 1..Len(x) |-> LowerChar(x[i])]

\* df[columna] = df[columna].str.strip()
StripCol(d, c) == [i \in 1..Len(d) |-> [d[i] EXCEPT ![c] = StrStrip(d[i][c])]]

\* df[columna] = df[columna].str.lower()
LowerCol(d, c) == [i \in 1..Len(d) |-> [d[i] EXCEPT ![c] = StrLower(d[i][c])]]

\* Mutant of LimpiarColumna: conservar_mayusculas is ignored
LimpiarColumnaSiempreMinusculas(d, columna, conservar_mayusculas) ==
    IF columna \in Columnas /\ Dtype(columna) = "object"
    THEN LowerCol(StripCol(d, columna), columna)
    ELSE d

\* the body of the loop for one name of columnas
LimpiarColumna(d, columna, conservar_mayusculas) ==
    IF columna \in Columnas /\ Dtype(columna) = "object"
    THEN LET d1 == StripCol(d, columna)
         IN IF columna \notin Range(conservar_mayusculas)
            THEN LowerCol(d1, columna)
            ELSE d1
    ELSE d

\* limpiar_texto(df, columnas, conservar_mayusculas): the loop over columnas
RECURSIVE limpiar_texto(_, _, _)
limpiar_texto(d, columnas, conservar_mayusculas) ==
    IF Len(columnas) = 0 THEN d
    ELSE limpiar_texto(LimpiarColumna(d, Head(columnas), conservar_mayusculas),
                       Tail(columnas), conservar_mayusculas)

\* the texts of column g1 and of column g2 in the DataFrames given to limpiar_texto
TextosG1 == { NULO, <<"a">>, <<" ">>, <<" ", "A">>, <<"B", " ">>,
              <<" ", "A", " ", "b", " ">> }

TextosG2 == { <<" ", "X">>, <<"x">> }

\* d is any DataFrame of 1..MaxRows rows with these texts and the value 10
EsDatasetTexto(d) ==
    \E n \in 1..MaxRows : \E f \in [1..n -> TextosG1 \X TextosG2] :
        d = [i \in 1..n |-> MkRow(i, <<f[i][1], f[i][2]>>, 10)]

\* the lists of column names a call is made with; "zz" is no column of df
ListasColumnas == { <<"g1">>, <<"g1", "g2">>, <<"g2", "val", "zz">>,
                    <<"g1", "id", "g2", "g1">> }

ListasConservar == { <<>>, <<"g1">>, <<"g2", "zz">> }

InitLimpiar ==
    /\ EsDatasetTexto(df)
    /\ df0 = df
    /\ prev = df
    /\ pc = "inicio"
    /\ exc = "none"
    /\ args = [fn |-> "none"]
    /\ scipy = "none"
    /\ resultado = <<>>

\* one call limpiar_texto(df, columnas, conservar_mayusculas)
LimpiarTexto ==
    /\ pc = "inicio"
    /\ \E columnas \in ListasColumnas, conservar \in ListasConservar :
          /\ df' = limpiar_texto(df, columnas, conservar)
          /\ args' = [fn |-> "limpiar_texto", columnas |-> columnas,
                      conservar_mayusculas |-> conservar]
    /\ prev' = df
    /\ pc' = "limpio"
    /\ exc' = "none"
    /\ UNCHANGED <<df0, scipy, resultado>>

NextLimpiar == LimpiarTexto

SpecLimpiar == InitLimpiar /\ [][NextLimpiar]_vars

\* the contiguous pieces of a text
Trozos(x) == UNION { {SubSeq(x, a, b) : b \in (a - 1)..Len(x)} : a \in 1..(Len(x) + 1) }

\* y is x without its leading and trailing whitespace
Recortado(x, y) ==
    \E a \in 1..(Len(x) + 1) : \E b \in (a - 1)..Len(x) :
        /\ y = SubSeq(x, a, b)
        /\ \A i \in 1..Len(x) : (i < a \/ i > b) => x[i] \in Espacios
        /\ Len(y) > 0 => (y[1] \notin Espacios /\ y[Len(y)] \notin Espacios)

\* y is x with every uppercase letter replaced by its lowercase letter
EnMinusculas(x, y) ==
    /\ Len(y) = Len(x)
    /\ \A i \in 1..Len(x) :
          /\ y[i] \notin {"A", "B", "X"}
          /\ (x[i] = "A" => y[i] = "a")
          /\ (x[i] = "B" => y[i] = "b")
          /\ (x[i] = "X" => y[i] = "x")
          /\ (x[i] \notin {"A", "B", "X"} => y[i] = x[i])

\* C10: limpiar_texto keeps the rows and their order; a text column named in
\* columnas is trimmed, and lowercased unless it is in conservar_mayusculas
\* (then trimmed only); every other column is unchanged; a name that is no
\* column of df is skipped without error.
C10_LimpiarTexto ==
    pc = "limpio" =>
        /\ exc = "none"
        /\ Len(df) = Len(prev)
        /\ \A i \in 1..Len(prev) : \A c \in Columnas :
              IF c \in Range(args.columnas) /\ Dtype(c) = "object"
              THEN IF prev[i][c] = NULO THEN df[i][c] = NULO
                   ELSE \E t \in Trozos(prev[i][c]) :
                          /\ Recortado(prev[i][c], t)
                          /\ IF c \in Range(args.conservar_mayusculas)
                             THEN df[i][c] = t
                             ELSE EnMinusculas(t, df[i][c])
              ELSE df[i][c] = prev[i][c]

\* C10 witness: a call naming a missing column trimmed a column it was told
\* to keep the case of
C10_Testigo ==
    /\ pc = "limpio"
    /\ "zz" \in Range(args.columnas)
    /\ "g2" \in Range(args.conservar_mayusculas)
    /\ \E i \in 1..Len(prev) : prev[i].g2 = <<" ", "X">> /\ df[i].g2 = <<"X">>

----------------------------------------------------------------------------
(* evaluar_fila *)

\* df_nulo[columnas_clave].notnull().sum(axis=1) for one row
RECURSIVE NotnullSum(_, _)
NotnullSum(row, columnas_clave) ==
    IF Len(columnas_clave) = 0 THEN 0
    ELSE (IF IsNullCell(row, Head(columnas_clave)) THEN 0 ELSE 1)
         + NotnullSum(row, Tail(columnas_clave))

\* a row with the column proporcion_datos_importantes added: the quotient
\* notnull / len(columnas_clave), kept as the pair of its terms
ConProporcion(row, columnas_clave) ==
    [c \in DOMAIN row \cup {"proporcion_datos_importantes"} |->
        IF c = "proporcion_datos_importantes"
        THEN [num |-> NotnullSum(row, columnas_clave), den |-> Len(columnas_clave)]
        ELSE row[c]]

\* Mutant of MenorQue: the comparison is <=
MenorOIgual(p, umbral) == p.num * umbral.den <= umbral.num * p.den

\* p < umbral for a quotient p and a threshold umbral = num / den
MenorQue(p, umbral) == p.num * umbral.den < umbral.num * p.den

\* DataFrame.drop(columns=[c]) on one row
DropColumn(row, c) == [x \in (DOMAIN row) \ {c} |-> row[x]]

\* evaluar_fila(df, columna_nula, columnas_clave, umbral): the rows returned
evaluar_fila(d, columna_nula, columnas_clave, umbral) ==
    LET sel == SelectSeq(d, LAMBDA row : IsNullCell(row, columna_nula))
        df_nulo == [i \in 1..Len(sel) |-> ConProporcion(sel[i], columnas_clave)]
        filas_a_eliminar ==
            SelectSeq(df_nulo,
                      LAMBDA row : MenorQue(row.proporcion_datos_importantes, umbral))
    IN [i \in 1..Len(filas_a_eliminar) |->
          DropColumn(filas_a_eliminar[i], "proporcion_datos_importantes")]

\* the arguments of the calls: the default threshold 0.7 among them
ColumnasNulas == {"val", "g1"}

ListasClave == { <<"g1">>, <<"g1", "g2">>, <<"g2", "val", "id">> }

UmbralesFila == { [num |-> 1, den |-> 2], [num |-> 7, den |-> 10], [num |-> 1, den |-> 1] }

InitEvaluar ==
    /\ EsDataset(df)
    /\ df0 = df
    /\ prev = df
    /\ pc = "inicio"
    /\ exc = "none"
    /\ args = [fn |-> "none"]
    /\ scipy = "none"
    /\ resultado = <<>>

\* one call evaluar_fila(df, columna_nula, columnas_clave, umbral)
EvaluarFila ==
    /\ pc = "inicio"
    /\ \E columna_nula \in ColumnasNulas, columnas_clave \in ListasClave,
          umbral \in UmbralesFila :
          /\ resultado' = evaluar_fila(df, columna_nula, columnas_clave, umbral)
          /\ args' = [fn |-> "evaluar_fila", columna_nula |-> columna_nula,
                      columnas_clave |-> columnas_clave, umbral |-> umbral]
    /\ prev' = df
    /\ pc' = "evaluado"
    /\ exc' = "none"
    /\ UNCHANGED <<df, df0, scipy>>

NextEvaluar == EvaluarFila

SpecEvaluar == InitEvaluar /\ [][NextEvaluar]_vars

\* the number of key columns of a row that are not null
NoNulas(row, columnas_clave) ==
    Cardinality({j \in 1..Len(columnas_clave) : ~IsNullCell(row, columnas_clave[j])})

\* the rows evaluar_fila is to report: null in columna_nula, and with a
\* fraction of non-null key columns strictly below the threshold
Candidata(row) ==
    /\ IsNullCell(row, args.columna_nula)
    /\ NoNulas(row, args.columnas_clave) * args.umbral.den
          < args.umbral.num * Len(args.columnas_clave)

\* C9: evaluar_fila returns exactly the candidate rows of df, whole and in
\* df's order, and leaves df as it was.
C9_EvaluarFila ==
    pc = "evaluado" =>
        /\ df = prev
        /\ \A j \in 1..Len(resultado) :
              /\ resultado[j].id \in 1..Len(df)
              /\ resultado[j] = df[resultado[j].id]
              /\ j > 1 => resultado[j - 1].id < resultado[j].id
        /\ {resultado[j].id : j \in 1..Len(resultado)}
              = {i \in 1..Len(df) : Candidata(df[i])}

\* C9 witness: a call reported a row, and kept back a row that is null in the
\* column but whose fraction equals the threshold
C9_Testigo ==
    /\ pc = "evaluado"
    /\ Len(resultado) > 0
    /\ \E i \in 1..Len(df) :
          /\ IsNullCell(df[i], args.columna_nula)
          /\ NoNulas(df[i], args.columnas_clave) * args.umbral.den
                = args.umbral.num * Len(args.columnas_clave)
          /\ \A j \in 1..Len(resultado) : resultado[j].id # i

====
